---- MODULE Spec2Model ----
(***************************************************************************)
(* Model of scripts/translate-json.js: the flatten / splitPath / setPath / *)
(* inflate transform, the retrying translation call and the cache-driven   *)
(* sync run (main).                                                        *)
(*                                                                         *)
(* JavaScript strings are sequences of one-character strings, so that the  *)
(* path codec, clean() and trim() are computed character by character.     *)
(* A JSON value is a record [t, v, e]: t = "s" a string with characters v, *)
(* t = "n" a non-string leaf (null, number, boolean), t = "m" an object    *)
(* and t = "a" an array, both with the ordered own properties e, a         *)
(* sequence of [k |-> property name, n |-> value].                         *)
(***************************************************************************)
EXTENDS Integers, Sequences, FiniteSets, TLC

VARIABLES
    tree, flat, root, tk, tpc, variant,          \* flatten / inflate harness
    srcFile, targetFile, cacheFile,              \* the files on disk
    gw, faults,                                  \* the gateway and the failures it can produce
    pc, flatEn, prevTarget, cache, out, todo,    \* main's locals
    translated, reused, exitCode, uncaught,
    att, err, wr, tries, slept,                  \* withRetries' locals, its state and its log
    calls, fetches, resp, decided,               \* per-run history, per path
    startSrc, startTarget, startCache,           \* the files as the run found them
    wroteTarget, wroteCache,                     \* what the run wrote
    runs, last                                   \* number of runs, summary of the previous one

treeVars == <<tree, flat, root, tk, tpc, variant>>
diskVars == <<srcFile, targetFile, cacheFile, gw, faults>>
mainVars == <<pc, flatEn, prevTarget, cache, out, todo, translated, reused, exitCode, uncaught>>
retryVars == <<att, err, wr, tries, slept>>
histVars == <<calls, fetches, resp, decided, startSrc, startTarget, startCache,
              wroteTarget, wroteCache, runs, last>>
vars == <<treeVars, diskVars, mainVars, retryVars, histVars>>

----------------------------------------------------------------------------
(* Strings *)

Digits == {"0", "1", "2", "3", "4", "5", "6", "7", "8", "9"}
Quotes == {"'", "\""}
Spaces == {" ", "\t", "\n", "\r"}

\* Number(m[2]) followed by the property-key conversion of the number: the
\* decimal digits without their leading zeros.
RECURSIVE NumberKey(_)
NumberKey(ds) ==
    IF Len(ds) > 1 /\ Head(ds) = "0" THEN NumberKey(Tail(ds)) ELSE ds

\* A property name that JavaScript treats as an array index (an integer key).
IsIndexKey(k) ==
    /\ Len(k) > 0
    /\ \A i \in 1..Len(k) : k[i] \in Digits
    /\ NumberKey(k) = k

DigitVal(c) == CHOOSE d \in 0..9 : <<"0", "1", "2", "3", "4", "5", "6", "7", "8", "9">>[d + 1] = c

\* Numeric order of two index keys.
RECURSIVE LexLess(_, _)
LexLess(a, b) ==
    IF a = <<>> \/ b = <<>> THEN FALSE
    ELSE IF Head(a) # Head(b) THEN DigitVal(Head(a)) < DigitVal(Head(b))
    ELSE LexLess(Tail(a), Tail(b))

IndexLess(a, b) == Len(a) < Len(b) \/ (Len(a) = Len(b) /\ LexLess(a, b))

\* s.trim() is truthy: some character is not white space.
TrimTruthy(s) == \E i \in 1..Len(s) : s[i] \notin Spaces

RECURSIVE StripLeading(_)
StripLeading(s) ==
    IF s # <<>> /\ Head(s) \in Quotes THEN StripLeading(Tail(s)) ELSE s

RECURSIVE StripTrailing(_)
StripTrailing(s) ==
    IF s # <<>> /\ s[Len(s)] \in Quotes THEN StripTrailing(SubSeq(s, 1, Len(s) - 1)) ELSE s

StripQuotes == TRUE

\* s.replace(/^['"]+|['"]+$/g, '') when STRIP_QUOTES
clean(s) == IF StripQuotes THEN StripTrailing(StripLeading(s)) ELSE s

----------------------------------------------------------------------------
(* JSON values and JavaScript objects *)

Str(s) == [t |-> "s", v |-> s, e |-> <<>>]
NonStr == [t |-> "n", v |-> <<>>, e |-> <<>>]
Obj(es) == [t |-> "m", v |-> <<>>, e |-> es]
Arr(es) == [t |-> "a", v |-> <<>>, e |-> es]
P(k, n) == [k |-> k, n |-> n]

isObj(x) == x.t = "m"
isArray(x) == x.t = "a"

Keys(es) == {es[i].k : i \in 1..Len(es)}
Has(es, k) == \E i \in 1..Len(es) : es[i].k = k
Get(es, k) == es[CHOOSE i \in 1..Len(es) : es[i].k = k].n

\* Position of a new property: integer keys first, in ascending order, then the
\* other keys in insertion order.
InsertAt(es, k) ==
    IF IsIndexKey(k)
    THEN Cardinality({i \in 1..Len(es) : IsIndexKey(es[i].k) /\ IndexLess(es[i].k, k)})
    ELSE Len(es)

\* o[k] = n on the own properties es of an object or array.
Put(es, k, n) ==
    IF Has(es, k)
    THEN [i \in 1..Len(es) |-> IF es[i].k = k THEN P(k, n) ELSE es[i]]
    ELSE LET at == InsertAt(es, k)
         IN  SubSeq(es, 1, at) \o <<P(k, n)>> \o SubSeq(es, at + 1, Len(es))

\* An array literal.
ArrOf(ns) == Arr([i \in 1..Len(ns) |-> P(<<<<"0", "1", "2", "3", "4", "5", "6", "7", "8", "9">>[i]>>, ns[i])])

\* Deep equality of two values, the order of the keys of an object aside.
RECURSIVE SameTree(_, _)
SameTree(a, b) ==
    /\ a.t = b.t
    /\ a.v = b.v
    /\ Keys(a.e) = Keys(b.e)
    /\ \A k \in Keys(a.e) : SameTree(Get(a.e, k), Get(b.e, k))

----------------------------------------------------------------------------
(* flatten *)

RECURSIVE flattenInto(_, _, _), flattenProps(_, _, _, _, _)

\* The forEach / for-of loop of flatten over the properties es of x, from
\* position i on.
flattenProps(x, es, i, base, o) ==
    IF i > Len(es) THEN o
    ELSE IF isArray(x) /\ ~IsIndexKey(es[i].k) THEN flattenProps(x, es, i + 1, base, o)
    ELSE
        LET k == es[i].k
            v == es[i].n
            p == IF isArray(x)
                 THEN (IF base # <<>> THEN base \o <<"[">> \o k \o <<"]">>
                                      ELSE <<"[">> \o k \o <<"]">>)
                 ELSE (IF base # <<>> THEN base \o <<".">> \o k ELSE k)
            o2 == IF isObj(v) \/ isArray(v) THEN flattenInto(v, p, o)
                  ELSE IF v.t = "s" THEN Put(o, p, v.v)
                  ELSE o
        IN  flattenProps(x, es, i + 1, base, o2)

flattenInto(x, base, o) ==
    IF isArray(x) \/ isObj(x) THEN flattenProps(x, x.e, 1, base, o) ELSE o

\* flatten(x): the own properties of the flat object, path -> string.
flatten(x) == flattenInto(x, <<>>, <<>>)

----------------------------------------------------------------------------
(* splitPath: /(?:\.?([^[.]+))|(?:\[(\d+)\])/g *)

\* Length of the longest run of characters of p from position i on that
\* satisfy the class: "key" is [^[.], "digit" is \d.
RECURSIVE Run(_, _, _)
Run(p, i, class) ==
    IF i > Len(p) THEN 0
    ELSE IF (class = "key" /\ p[i] \notin {"[", "."}) \/ (class = "digit" /\ p[i] \in Digits)
         THEN 1 + Run(p, i + 1, class)
         ELSE 0

Tok(isNum, k) == [num |-> isNum, k |-> k]

RECURSIVE splitFrom(_, _, _)
splitFrom(p, i, tokens) ==
    IF i > Len(p) THEN tokens
    ELSE
        LET s == IF p[i] = "." THEN i + 1 ELSE i
            r == Run(p, s, "key")
            d == IF p[i] = "[" THEN Run(p, i + 1, "digit") ELSE 0
        IN  IF r > 0
            THEN splitFrom(p, s + r, Append(tokens, Tok(FALSE, SubSeq(p, s, s + r - 1))))
            ELSE IF d > 0 /\ i + d + 1 <= Len(p) /\ p[i + d + 1] = "]"
            THEN splitFrom(p, i + d + 2,
                           Append(tokens, Tok(TRUE, NumberKey(SubSeq(p, i + 1, i + d)))))
            ELSE splitFrom(p, i + 1, tokens)

splitPath(p) == splitFrom(p, 1, <<>>)

----------------------------------------------------------------------------
(* setPath, inflate *)

\* The TypeError of a property assignment on a primitive string (the script is
\* an ES module, hence strict).
Thrown == [t |-> "throw", v |-> <<>>, e |-> <<>>]

\* The container setPath creates at parts[i] when cur has none.
Fresh(parts, i) == IF parts[i + 1].num THEN Arr(<<>>) ELSE Obj(<<>>)

RECURSIVE setAt(_, _, _, _)
\* setPath from the container cur at parts[i] on: the container after the
\* assignment, or Thrown. With no parts at all the key is parts.at(-1), which
\* is undefined and names the property "undefined".
setAt(cur, parts, i, val) ==
    IF Len(parts) = 0
    THEN [cur EXCEPT !.e = Put(cur.e, <<"u", "n", "d", "e", "f", "i", "n", "e", "d">>, Str(val))]
    ELSE IF i = Len(parts)
    THEN [cur EXCEPT !.e = Put(cur.e, parts[i].k, Str(val))]
    ELSE
        LET k == parts[i].k
            child == IF Has(cur.e, k) THEN Get(cur.e, k) ELSE Fresh(parts, i)
        IN  IF child.t = "s" THEN Thrown
            ELSE LET r == setAt(child, parts, i + 1, val)
                 IN  IF r = Thrown THEN Thrown ELSE [cur EXCEPT !.e = Put(cur.e, k, r)]

setPath(obj, parts, val) == setAt(obj, parts, 1, val)

RECURSIVE inflateFrom(_, _, _)
inflateFrom(r, es, i) ==
    IF i > Len(es) \/ r = Thrown THEN r
    ELSE inflateFrom(setPath(r, splitPath(es[i].k), es[i].n), es, i + 1)

\* inflate(map): the tree built from the properties es of a flat object, or
\* Thrown.
inflate(es) == inflateFrom(Obj(<<>>), es, 1)

----------------------------------------------------------------------------
(* The second variant of the script: flatten, splitPath, setPath, inflate *)

\* Object.assign(o, src)
RECURSIVE assign(_, _)
assign(o, src) ==
    IF src = <<>> THEN o ELSE assign(Put(o, Head(src).k, Head(src).n), Tail(src))

RECURSIVE flatten2At(_, _), flatten2Props(_, _, _, _, _)

flatten2Props(x, es, i, prefix, o) ==
    IF i > Len(es) THEN o
    ELSE IF isArray(x) /\ ~IsIndexKey(es[i].k) THEN flatten2Props(x, es, i + 1, prefix, o)
    ELSE
        LET k == es[i].k
            v == es[i].n
            p == IF isArray(x)
                 THEN (IF prefix # <<>> THEN prefix \o <<"[">> \o k \o <<"]">>
                                        ELSE <<"[">> \o k \o <<"]">>)
                 ELSE (IF prefix # <<>> THEN prefix \o <<".">> \o k ELSE k)
            o2 == IF isObj(v) \/ isArray(v) THEN assign(o, flatten2At(v, p))
                  ELSE IF v.t = "s" THEN Put(o, p, v.v)
                  ELSE o
        IN  flatten2Props(x, es, i + 1, prefix, o2)

flatten2At(x, prefix) ==
    IF isArray(x) \/ isObj(x) THEN flatten2Props(x, x.e, 1, prefix, <<>>) ELSE <<>>

flatten2(x) == flatten2At(x, <<>>)

\* Number(idx) as a property key, for the texts a path of flatten can hold
\* between its brackets: digits, nothing (0), or a text that is no number.
Number2(idx) ==
    IF idx = <<>> THEN <<"0">>
    ELSE IF \A i \in 1..Len(idx) : idx[i] \in Digits THEN NumberKey(idx)
    ELSE <<"N", "a", "N">>

\* Number of characters of p from position i on that stand before the next "]".
RECURSIVE UpToBracket(_, _)
UpToBracket(p, i) == IF i > Len(p) \/ p[i] = "]" THEN 0 ELSE 1 + UpToBracket(p, i + 1)

Flush(parts, buf) == IF buf # <<>> THEN Append(parts, Tok(FALSE, buf)) ELSE parts

RECURSIVE split2From(_, _, _, _)
split2From(p, i, parts, buf) ==
    IF i > Len(p) THEN Flush(parts, buf)
    ELSE IF p[i] = "." THEN split2From(p, i + 1, Flush(parts, buf), <<>>)
    ELSE IF p[i] = "["
    THEN LET n == UpToBracket(p, i + 1)
         IN  split2From(p, i + n + 2,
                        Append(Flush(parts, buf), Tok(TRUE, Number2(SubSeq(p, i + 1, i + n)))),
                        <<>>)
    ELSE split2From(p, i + 1, parts, Append(buf, p[i]))

splitPath2(p) == split2From(p, 1, <<>>, <<>>)

\* cur was replaced by a new array that nothing refers to: what is assigned
\* from there on is lost.
Detached == [t |-> "detached", v |-> <<>>, e |-> <<>>]

RECURSIVE set2At(_, _, _, _)
set2At(cur, parts, i, val) ==
    IF Len(parts) = 0
    THEN [cur EXCEPT !.e = Put(cur.e, <<"u", "n", "d", "e", "f", "i", "n", "e", "d">>, Str(val))]
    ELSE IF i = Len(parts)
    THEN (IF cur.t = "s" THEN Thrown ELSE [cur EXCEPT !.e = Put(cur.e, parts[i].k, Str(val))])
    ELSE IF parts[i].num /\ ~isArray(cur) THEN Detached
    ELSE IF cur.t = "s" THEN Thrown
    ELSE
        LET k == parts[i].k
            child == IF Has(cur.e, k) THEN Get(cur.e, k) ELSE Fresh(parts, i)
            r == set2At(child, parts, i + 1, val)
        IN  IF r = Thrown THEN Thrown
            ELSE [cur EXCEPT !.e = Put(cur.e, k, IF r = Detached THEN child ELSE r)]

setPath2(obj, parts, val) ==
    IF set2At(obj, parts, 1, val) = Detached THEN obj ELSE set2At(obj, parts, 1, val)

RECURSIVE inflate2From(_, _, _)
inflate2From(r, es, i) ==
    IF i > Len(es) \/ r = Thrown THEN r
    ELSE inflate2From(setPath2(r, splitPath2(es[i].k), es[i].n), es, i + 1)

inflate2(es) == inflate2From(Obj(<<>>), es, 1)

----------------------------------------------------------------------------
(* The trees the transform is run on *)

MaxNodes == 4
LeafText == {<<"x">>}
TreeKeys == {<<"a">>, <<>>, <<"a", ".", "b">>, <<"[", "0", "]">>}

\* Injective sequences of n keys.
KeySeqs(n) == {ks \in [1..n -> TreeKeys] : \A i, j \in 1..n : i # j => ks[i] # ks[j]}

\* G[n].trees: the trees of exactly n nodes; G[n].forests: the sequences of
\* trees of n nodes in all.
G[n \in 0..MaxNodes] ==
    IF n = 0 THEN [trees |-> {}, forests |-> {<<>>}]
    ELSE
        LET kids == G[n - 1].forests
            ts == IF n = 1
                  THEN {Str(s) : s \in LeafText} \cup {Obj(<<>>), Arr(<<>>)}
                  ELSE {ArrOf(f) : f \in kids}
                       \cup UNION {{Obj([i \in 1..Len(f) |-> P(ks[i], f[i])]) : ks \in KeySeqs(Len(f))}
                                   : f \in {g \in kids : Len(g) <= Cardinality(TreeKeys)}}
            fs == UNION {{<<t>> \o f : t \in (IF k = n THEN ts ELSE G[k].trees), f \in G[n - k].forests}
                         : k \in 1..n}
        IN  [trees |-> ts, forests |-> fs]

\* The trees of at most n nodes.
TreesUpTo(n) == UNION {G[k].trees : k \in 1..n}

----------------------------------------------------------------------------
(* Files *)

Absent == [t |-> "absent", v |-> <<>>, e |-> <<>>]

RECURSIVE KeyNum(_)
KeyNum(k) == IF k = <<>> THEN 0 ELSE 10 * KeyNum(SubSeq(k, 1, Len(k) - 1)) + DigitVal(k[Len(k)])

RECURSIVE NumKey(_)
NumKey(n) ==
    LET d == <<<<"0", "1", "2", "3", "4", "5", "6", "7", "8", "9">>[(n % 10) + 1]>>
    IN  IF n < 10 THEN d ELSE NumKey(n \div 10) \o d

\* JSON.parse(JSON.stringify(x)): what a file holds after x was written to it.
\* An array is written up to its length, a hole as null, and without its
\* other properties.
RECURSIVE Json(_)
Json(x) ==
    IF isObj(x) THEN Obj([i \in 1..Len(x.e) |-> P(x.e[i].k, Json(x.e[i].n))])
    ELSE IF isArray(x)
    THEN LET idx == {k \in Keys(x.e) : IsIndexKey(k)}
             len == IF idx = {} THEN 0
                    ELSE 1 + KeyNum(CHOOSE k \in idx : \A j \in idx : j = k \/ IndexLess(j, k))
         IN  Arr([i \in 1..len |->
                    P(NumKey(i - 1),
                      IF NumKey(i - 1) \in idx THEN Json(Get(x.e, NumKey(i - 1))) ELSE NonStr)])
    ELSE x

\* readJSON(fp) || {}
readOr(file) == IF file = Absent THEN Obj(<<>>) ELSE file

\* writeJSON(fp, obj): the file afterwards.
writeJSON(file, obj) == Json(obj)

\* writeIfChanged(fp, obj): whether the serialized forms differ, and the file
\* afterwards.
writeIfChanged(file, obj) ==
    IF file # Json(obj) THEN [changed |-> TRUE, file |-> writeJSON(file, obj)]
                        ELSE [changed |-> FALSE, file |-> file]

----------------------------------------------------------------------------
(* The gateway, translateOne, withRetries *)

Retries == 3
BaseDelay == 400

Fault(status, msg) == [status |-> status, msg |-> msg]
NoErr == Fault(0, "")

\* A thrown error has e.status (0: none) and e.message.
AllFaults ==
    {Fault(st, "Translate") : st \in {404, 429, 500, 502, 503, 504}}
    \cup {Fault(404, "network down")}
    \cup {Fault(0, m) : m \in {"read ECONNRESET", "connect ETIMEDOUT", "Network error",
                               "fetch failed", "Unexpected token < in JSON"}}

FewFaults == {Fault(503, "Translate"), Fault(404, "network down")}

\* /ECONNRESET|ETIMEDOUT|network|fetch/i.test(msg), on the messages above.
MsgMatches(msg) ==
    msg \in {"read ECONNRESET", "connect ETIMEDOUT", "Network error", "network down",
             "fetch failed"}

retryable(e) ==
    IF e.status # 0 THEN e.status \in {429, 500, 502, 503, 504} ELSE MsgMatches(e.msg)

\* The loop bound off by one: a further attempt after attempt retries.
lastAttemptOffByOne(i) == i = Retries + 1

\* i === retries
lastAttempt(i) == i = Retries

\* A linear delay in place of the exponential one.
delayLinear(i) == BaseDelay * 2 * i

\* baseDelay * 2 ** i
delay(i) == BaseDelay * 2 ^ i

\* The elements of data[0]: a segment [text, ...], a segment whose text is
\* null, or something that is no array.
Seg(s) == [arr |-> TRUE, nul |-> FALSE, s |-> s]
NullSeg == [arr |-> TRUE, nul |-> TRUE, s |-> <<>>]
Junk == [arr |-> FALSE, nul |-> FALSE, s |-> <<>>]

GwModes == {"tr", "blank", "nosegs"}

\* res.json() of a successful request for text: the gateway is deterministic.
Respond(mode, text) ==
    IF mode = "tr" THEN [segs |-> TRUE, parts |-> <<Seg(<<"T">>), Junk, NullSeg, Seg(text)>>]
    ELSE IF mode = "blank" THEN [segs |-> TRUE, parts |-> <<Seg(<<" ">>), NullSeg>>]
    ELSE [segs |-> FALSE, parts |-> <<>>]

\* segs.filter(Array.isArray).map(s => s?.[0] ?? '').join('')
RECURSIVE joined(_)
joined(parts) ==
    IF parts = <<>> THEN <<>>
    ELSE (IF Head(parts).arr /\ ~Head(parts).nul THEN Head(parts).s ELSE <<>>)
         \o joined(Tail(parts))

\* What translateOne returns from the data withRetries gave it.
translateOne(text, data) ==
    IF ~data.segs THEN text
    ELSE IF TrimTruthy(joined(data.parts)) THEN joined(data.parts) ELSE text

----------------------------------------------------------------------------
(* main *)

MaxRuns == 2

H == <<"h">>
HI == <<"h", "i">>
QH == <<"'", "h", "'">>
SP == <<" ">>

Sources ==
    { Absent,
      Obj(<<P(<<"a">>, Obj(<<P(<<"b">>, Str(H))>>))>>),
      Obj(<<P(<<"a">>, Obj(<<P(<<"b">>, Str(HI))>>))>>),
      Obj(<<P(<<"a">>, Obj(<<P(<<"b">>, Str(QH))>>)), P(<<"c">>, Str(H)),
            P(<<"l">>, ArrOf(<<Str(H)>>))>>),
      Obj(<<P(<<"a">>, Obj(<<P(<<"b">>, Str(QH))>>)), P(<<"c">>, Str(SP))>>),
      Obj(<<P(<<"n">>, NonStr)>>),
      Obj(<<P(<<"c">>, Str(H)), P(<<"l">>, ArrOf(<<NonStr, Str(H)>>))>>),
      ArrOf(<<Str(H)>>),
      Obj(<<P(<<"a">>, Str(H)), P(<<"a", ".", "b">>, Str(H))>>) }

NoLast == [valid |-> FALSE, src |-> Absent, exit |-> 0, target |-> Absent]

\* The summary of the run that has just ended, if any.
Ended ==
    IF pc \in {"done", "failed"}
    THEN [valid |-> TRUE, src |-> startSrc, exit |-> exitCode, target |-> targetFile]
    ELSE last
NoResp == [got |-> FALSE, data |-> [segs |-> FALSE, parts |-> <<>>]]
Ok == Fault(200, "ok")
TypeError == Fault(0, "TypeError")

\* The reuse test without the check that the previous output is not blank.
reusableIgnoringBlank(c, pt, p, en) == Has(c, p) /\ Get(c, p) = Str(en) /\ Has(pt, p)

\* lastEn === en && typeof prev === 'string' && prev.trim()
reusable(c, pt, p, en) ==
    Has(c, p) /\ Get(c, p) = Str(en) /\ Has(pt, p) /\ TrimTruthy(Get(pt, p))

\* The cache keeping the translation in place of the source text.
recordedTranslation(o, c, p, en, res) == [out |-> Put(o, p, res), cache |-> Put(c, p, Str(res))]

\* out[pathKey] = await translateOne(...); cache[pathKey] = en
recorded(o, c, p, en, res) == [out |-> Put(o, p, res), cache |-> Put(c, p, Str(en))]

\* A handler that saves the cache of the aborted run.
onRejectedSavingCache(e) ==
    [exitCode |-> 1, targetFile |-> targetFile, cacheFile |-> writeJSON(cacheFile, Obj(cache))]

\* .catch(e => { console.error(e); process.exit(1); })
onRejected(e) == [exitCode |-> 1, targetFile |-> targetFile, cacheFile |-> cacheFile]

Idle ==
    /\ pc = "idle" /\ flatEn = <<>> /\ prevTarget = <<>> /\ cache = <<>> /\ out = <<>>
    /\ todo = <<>> /\ translated = 0 /\ reused = 0 /\ exitCode = 0 /\ uncaught = NoErr
    /\ att = 0 /\ err = NoErr /\ wr = "none" /\ tries = <<>> /\ slept = <<>>
    /\ calls = <<>> /\ fetches = <<>> /\ resp = <<>> /\ decided = <<>>
    /\ startSrc = Absent /\ startTarget = Absent /\ startCache = Absent
    /\ wroteTarget = FALSE /\ wroteCache = FALSE /\ runs = 0 /\ last = NoLast

TreeOff ==
    tree = Absent /\ flat = <<>> /\ root = Absent /\ tk = 0 /\ tpc = "off" /\ variant = 1

Init ==
    /\ TreeOff
    /\ srcFile \in Sources /\ targetFile = Absent /\ cacheFile = Absent
    /\ gw \in GwModes /\ faults = FewFaults
    /\ Idle

\* A run of the script, up to the loop over the leaves.
Start ==
    /\ pc \in {"idle", "done", "failed"}
    /\ runs < MaxRuns
    /\ runs' = runs + 1
    /\ last' = Ended
    /\ startSrc' = srcFile /\ startTarget' = targetFile /\ startCache' = cacheFile
    /\ wroteTarget' = FALSE /\ wroteCache' = FALSE
    /\ translated' = 0 /\ reused' = 0 /\ out' = <<>> /\ uncaught' = NoErr
    /\ att' = 0 /\ err' = NoErr /\ wr' = "none" /\ tries' = <<>> /\ slept' = <<>>
    /\ LET f == IF srcFile = Absent THEN <<>> ELSE flatten(srcFile)
       IN  /\ flatEn' = f
           /\ calls' = [p \in Keys(f) |-> 0]
           /\ fetches' = [p \in Keys(f) |-> 0]
           /\ resp' = [p \in Keys(f) |-> NoResp]
           /\ decided' = [p \in Keys(f) |-> "none"]
           /\ IF srcFile = Absent
              THEN pc' = "failed" /\ exitCode' = 1 /\ todo' = <<>>
                   /\ prevTarget' = <<>> /\ cache' = <<>>
              ELSE IF f = <<>>
              THEN pc' = "done" /\ exitCode' = 0 /\ todo' = <<>>
                   /\ prevTarget' = <<>> /\ cache' = <<>>
              ELSE pc' = "loop" /\ exitCode' = 0 /\ todo' = f
                   /\ prevTarget' = flatten(readOr(targetFile))
                   /\ cache' = readOr(cacheFile).e
    /\ UNCHANGED <<treeVars, diskVars>>

\* The leaf the loop is at.
pathKey == Head(todo).k
en == clean(Head(todo).n)

Reuse ==
    /\ pc = "loop" /\ todo # <<>>
    /\ reusable(cache, prevTarget, pathKey, en)
    /\ out' = Put(out, pathKey, Get(prevTarget, pathKey))
    /\ reused' = reused + 1
    /\ todo' = Tail(todo)
    /\ decided' = [decided EXCEPT ![pathKey] = "reuse"]
    /\ UNCHANGED <<treeVars, diskVars, pc, flatEn, prevTarget, cache, translated, exitCode,
                   uncaught, retryVars, calls, fetches, resp, startSrc, startTarget,
                   startCache, wroteTarget, wroteCache, runs, last>>

\* The call of translateOne, up to the first attempt of withRetries.
Translate ==
    /\ pc = "loop" /\ todo # <<>>
    /\ ~reusable(cache, prevTarget, pathKey, en)
    /\ pc' = "fetch"
    /\ att' = 0 /\ err' = NoErr /\ wr' = "running" /\ tries' = <<>> /\ slept' = <<>>
    /\ calls' = [calls EXCEPT ![pathKey] = @ + 1]
    /\ decided' = [decided EXCEPT ![pathKey] = "translate"]
    /\ UNCHANGED <<treeVars, diskVars, flatEn, prevTarget, cache, out, todo, translated,
                   reused, exitCode, uncaught, fetches, resp, startSrc, startTarget,
                   startCache, wroteTarget, wroteCache, runs, last>>

\* An attempt that succeeds: withRetries returns, translateOne returns, the
\* loop records the translation.
FetchOk ==
    /\ pc = "fetch"
    /\ LET data == Respond(gw, en)
           rec == recorded(out, cache, pathKey, en, translateOne(en, data))
       IN  /\ out' = rec.out
           /\ cache' = rec.cache
           /\ resp' = [resp EXCEPT ![pathKey] = [got |-> TRUE, data |-> data]]
    /\ fetches' = [fetches EXCEPT ![pathKey] = @ + 1]
    /\ tries' = Append(tries, Ok)
    /\ wr' = "returned"
    /\ translated' = translated + 1
    /\ todo' = Tail(todo)
    /\ pc' = "loop"
    /\ UNCHANGED <<treeVars, diskVars, flatEn, prevTarget, reused, exitCode, uncaught,
                   att, err, slept, calls, decided, startSrc, startTarget, startCache,
                   wroteTarget, wroteCache, runs, last>>

\* An attempt that fails with e: withRetries sleeps before the next attempt, or
\* throws e, which nothing catches before the handler of main's promise.
FetchFail ==
    /\ pc = "fetch"
    /\ \E e \in faults :
        /\ err' = e
        /\ tries' = Append(tries, e)
        /\ IF ~retryable(e) \/ lastAttempt(att)
           THEN /\ wr' = "threw"
                /\ uncaught' = e
                /\ pc' = "failed"
                /\ exitCode' = onRejected(e).exitCode
                /\ targetFile' = onRejected(e).targetFile
                /\ cacheFile' = onRejected(e).cacheFile
           ELSE /\ pc' = "sleep"
                /\ UNCHANGED <<wr, uncaught, exitCode, targetFile, cacheFile>>
    /\ fetches' = [fetches EXCEPT ![pathKey] = @ + 1]
    /\ UNCHANGED <<treeVars, srcFile, gw, faults, flatEn, prevTarget, cache, out, todo,
                   translated, reused, att, slept, calls, resp, decided, startSrc,
                   startTarget, startCache, wroteTarget, wroteCache, runs, last>>

\* await new Promise(r => setTimeout(r, baseDelay * 2 ** i)); i++
Sleep ==
    /\ pc = "sleep"
    /\ slept' = Append(slept, delay(att))
    /\ att' = att + 1
    /\ pc' = "fetch"
    /\ UNCHANGED <<treeVars, diskVars, flatEn, prevTarget, cache, out, todo, translated,
                   reused, exitCode, uncaught, err, wr, tries, calls, fetches, resp,
                   decided, startSrc, startTarget, startCache, wroteTarget, wroteCache,
                   runs, last>>

\* After the loop: inflate, write the output if it changed, write the cache.
Finish ==
    /\ pc = "loop" /\ todo = <<>>
    /\ LET targetObj == inflate(out)
       IN  IF targetObj = Thrown
           THEN /\ uncaught' = TypeError
                /\ pc' = "failed"
                /\ exitCode' = onRejected(TypeError).exitCode
                /\ targetFile' = onRejected(TypeError).targetFile
                /\ cacheFile' = onRejected(TypeError).cacheFile
                /\ UNCHANGED <<wroteTarget, wroteCache>>
           ELSE /\ targetFile' = writeIfChanged(targetFile, targetObj).file
                /\ wroteTarget' = writeIfChanged(targetFile, targetObj).changed
                /\ cacheFile' = writeJSON(cacheFile, Obj(cache))
                /\ wroteCache' = TRUE
                /\ pc' = "done"
                /\ UNCHANGED <<uncaught, exitCode>>
    /\ UNCHANGED <<treeVars, srcFile, gw, faults, flatEn, prevTarget, cache, out, todo,
                   translated, reused, retryVars, calls, fetches, resp, decided, startSrc,
                   startTarget, startCache, runs, last>>

\* Between two runs, the process gone with its memory, the source file is
\* edited.
EditSource ==
    /\ pc \in {"done", "failed"}
    /\ runs < MaxRuns
    /\ \E s \in Sources \ {srcFile} : srcFile' = s
    /\ last' = Ended
    /\ pc' = "idle" /\ flatEn' = <<>> /\ prevTarget' = <<>> /\ cache' = <<>> /\ out' = <<>>
    /\ todo' = <<>> /\ translated' = 0 /\ reused' = 0 /\ exitCode' = 0 /\ uncaught' = NoErr
    /\ att' = 0 /\ err' = NoErr /\ wr' = "none" /\ tries' = <<>> /\ slept' = <<>>
    /\ calls' = <<>> /\ fetches' = <<>> /\ resp' = <<>> /\ decided' = <<>>
    /\ startSrc' = Absent /\ startTarget' = Absent /\ startCache' = Absent
    /\ wroteTarget' = FALSE /\ wroteCache' = FALSE
    /\ UNCHANGED <<treeVars, targetFile, cacheFile, gw, faults, runs>>

Next == Start \/ Reuse \/ Translate \/ FetchOk \/ FetchFail \/ Sleep \/ Finish \/ EditSource

Spec == Init /\ [][Next]_vars

\* One leaf, every failure the gateway can produce, no edit of the source.
InitRetry ==
    /\ TreeOff
    /\ srcFile = Obj(<<P(<<"a">>, Obj(<<P(<<"b">>, Str(H))>>))>>)
    /\ targetFile = Absent /\ cacheFile = Absent
    /\ gw \in GwModes /\ faults = AllFaults
    /\ Idle

NextRetry == Start \/ Reuse \/ Translate \/ FetchOk \/ FetchFail \/ Sleep \/ Finish

SpecRetry == InitRetry /\ [][NextRetry]_vars

----------------------------------------------------------------------------
(* flatten, then inflate entry by entry, on every tree *)

InitTree ==
    /\ tree \in TreesUpTo(MaxNodes) /\ flat = <<>> /\ root = Absent /\ tk = 0 /\ tpc = "tree"
    /\ variant \in {1, 2}
    /\ srcFile = Absent /\ targetFile = Absent /\ cacheFile = Absent
    /\ gw = "tr" /\ faults = {}
    /\ Idle

TFlatten ==
    /\ tpc = "tree"
    /\ flat' = IF variant = 1 THEN flatten(tree) ELSE flatten2(tree)
    /\ root' = Obj(<<>>)
    /\ tk' = 1
    /\ tpc' = "inflating"
    /\ UNCHANGED <<tree, variant, diskVars, mainVars, retryVars, histVars>>

TSetPath ==
    /\ tpc = "inflating" /\ tk <= Len(flat)
    /\ root' = IF variant = 1 THEN setPath(root, splitPath(flat[tk].k), flat[tk].n)
                              ELSE setPath2(root, splitPath2(flat[tk].k), flat[tk].n)
    /\ tk' = tk + 1
    /\ tpc' = IF root' = Thrown THEN "threw" ELSE "inflating"
    /\ UNCHANGED <<tree, flat, variant, diskVars, mainVars, retryVars, histVars>>

TReturn ==
    /\ tpc = "inflating" /\ tk > Len(flat)
    /\ tpc' = "inflated"
    /\ UNCHANGED <<tree, flat, root, tk, variant, diskVars, mainVars, retryVars, histVars>>

NextTree == TFlatten \/ TSetPath \/ TReturn

SpecTree == InitTree /\ [][NextTree]_vars

----------------------------------------------------------------------------
(* Properties *)

\* s without its leading and trailing quote characters, stated without the
\* computation of clean: the part of s between a prefix and a suffix that are
\* all quotes, itself neither starting nor ending with a quote.
Unquoted(s) ==
    LET ok(i, j) == /\ i <= j + 1
                    /\ \A a \in 1..(i - 1) : s[a] \in Quotes
                    /\ \A b \in (j + 1)..Len(s) : s[b] \in Quotes
                    /\ i <= j => (s[i] \notin Quotes /\ s[j] \notin Quotes)
    IN  CHOOSE u \in {SubSeq(s, x[1], x[2]) :
                        x \in {y \in (1..(Len(s) + 1)) \X (0..Len(s)) : ok(y[1], y[2])}} : TRUE

Paths == DOMAIN decided
SourceAt(p) == Get(flatEn, p)
LoadedCache == readOr(startCache).e
PreviousOutput == flatten(readOr(startTarget))
WrittenCache == readOr(cacheFile).e
Completed == pc = "done" /\ wroteCache
Remaining == Keys(todo)

\* C1: inflate(flatten(t)) equals t for every tree t of strings, mappings and
\* sequences, a sequence at the root, empty containers and any keys included.
C1_RoundTrip ==
    /\ tpc # "threw"
    /\ tpc = "inflated" => SameTree(root, tree)

\* C2 as stated: a decided leaf is reused (the previous output verbatim, no
\* gateway call) exactly when the cache entry equals the source value of the
\* path and the previous output of the path is a non-blank string.
C2_ReuseIffCacheEqualsSource ==
    \A p \in Paths :
        decided[p] # "none" =>
            (decided[p] = "reuse"
                <=> /\ Has(LoadedCache, p) /\ Get(LoadedCache, p) = Str(SourceAt(p))
                    /\ Has(PreviousOutput, p) /\ TrimTruthy(Get(PreviousOutput, p)))

\* C2 amended: a decided leaf is reused (the previous output verbatim, no
\* gateway call) exactly when the cache entry equals the source value of the
\* path with its leading and trailing quotes stripped and the previous output
\* of the path is a non-blank string; otherwise translateOne is called for it.
C2_ReuseIffCacheEqualsCleanedSource ==
    \A p \in Paths :
        decided[p] # "none" =>
            /\ decided[p] = "reuse"
                <=> /\ Has(LoadedCache, p) /\ Get(LoadedCache, p) = Str(Unquoted(SourceAt(p)))
                    /\ Has(PreviousOutput, p) /\ TrimTruthy(Get(PreviousOutput, p))
            /\ decided[p] = "reuse" =>
                /\ Has(out, p) /\ Get(out, p) = Get(PreviousOutput, p)
                /\ calls[p] = 0 /\ fetches[p] = 0
            /\ decided[p] = "translate" => calls[p] = 1

\* A leaf whose source is quoted was reused, and a leaf whose cache entry
\* matches but whose previous output is blank was sent to translation.
C2_Witness ==
    /\ \E p \in Paths : decided[p] = "reuse" /\ SourceAt(p) # Unquoted(SourceAt(p))
    /\ \E p \in Paths :
        /\ decided[p] = "translate"
        /\ Has(LoadedCache, p) /\ Get(LoadedCache, p) = Str(Unquoted(SourceAt(p)))
        /\ Has(PreviousOutput, p)

\* C3 as stated: when the run is over, the gateway was called exactly once for
\* every source leaf absent from the loaded cache or differing from its entry.
\* A call is counted as a call of translateOne, the retrying wrapper, whatever
\* the number of requests it made: with no such call there was no request.
C3_MissCalledExactlyOnce ==
    pc \in {"done", "failed"} =>
        \A p \in Paths :
            (~Has(LoadedCache, p) \/ Get(LoadedCache, p) # Str(SourceAt(p)))
                => calls[p] = 1

\* C3 amended: translateOne is called at most once for a leaf and the gateway
\* is requested at most retries + 1 times for it, and only within that call;
\* in a run that completes, every leaf absent from the loaded cache or whose
\* unquoted source differs from its entry had exactly one call of translateOne
\* and between 1 and retries + 1 requests; in a run that aborts, the leaves
\* after the failing one had none.
C3_MissTranslatedOnce ==
    /\ \A p \in Paths :
        /\ calls[p] <= 1
        /\ fetches[p] <= Retries + 1
        /\ calls[p] = 0 => fetches[p] = 0
        /\ (calls[p] = 1 /\ p \notin Remaining) => fetches[p] >= 1
    /\ Completed =>
        \A p \in Paths :
            (~Has(LoadedCache, p) \/ Get(LoadedCache, p) # Str(Unquoted(SourceAt(p))))
                => calls[p] = 1 /\ fetches[p] \in 1..(Retries + 1)
    /\ (pc = "failed" /\ wr = "threw") =>
        \A p \in Remaining \ {Head(todo).k} : fetches[p] = 0 /\ calls[p] = 0

\* A completed run in which a leaf that missed the cache took retries + 1
\* requests.
C3_Witness ==
    /\ Completed
    /\ \E p \in Paths : ~Has(LoadedCache, p) /\ calls[p] = 1 /\ fetches[p] = Retries + 1

\* C4: a second run on the unchanged source, the gateway deterministic, leaves
\* the output file as the first run left it and issues no gateway request.
C4_Idempotent ==
    (pc = "done" /\ last.valid /\ last.exit = 0 /\ last.src = startSrc) =>
        /\ targetFile = last.target
        /\ \A p \in Paths : fetches[p] = 0

\* C5: after a run that ends successfully, no path of the previous output that
\* is no string leaf of the source is in the output file.
C5_Pruned ==
    pc = "done" =>
        \A p \in Keys(PreviousOutput) \ Keys(flatten(startSrc)) :
            p \notin Keys(flatten(readOr(targetFile)))

\* C6: every run that ends with exit code 0 has written the cache file.
C6_CacheAlwaysWritten == pc = "done" => wroteCache

\* C8: whenever the gateway returned an empty or blank result for a leaf, the
\* output holds the original source text of the leaf, and no blank value is in
\* the output.
C8_BlankFallsBackToSource ==
    \A p \in Paths :
        (resp[p].got /\ resp[p].data.segs /\ ~TrimTruthy(joined(resp[p].data.parts))) =>
            /\ Has(out, p)
            /\ Get(out, p) = SourceAt(p)
            /\ TrimTruthy(Get(out, p))

\* The failures the claim calls transient: one of the five statuses, or no
\* status and a connection-reset, timeout or network message ("fetch failed"
\* is the message of a network failure of fetch).
Transient(e) ==
    \/ e.status \in {429, 500, 502, 503, 504}
    \/ /\ e.status = 0
       /\ e.msg \in {"read ECONNRESET", "connect ETIMEDOUT", "Network error", "fetch failed"}

\* C7: withRetries attempts the call at most retries + 1 times; every attempt
\* but the last failed with a transient failure and was followed by a delay of
\* baseDelay * 2^i (i the number of the attempt, from 0) before the next
\* attempt; a success ends the attempts and is returned; a non-transient
\* failure, or the failure of attempt retries, is thrown at once with no delay.
C7_RetryPolicy ==
    wr # "none" =>
        /\ Len(tries) <= Retries + 1
        /\ \A j \in 1..(Len(tries) - 1) : tries[j] # Ok /\ Transient(tries[j])
        /\ \A j \in 1..Len(slept) : slept[j] = BaseDelay * 2 ^ (j - 1)
        /\ att = Len(slept)
        /\ pc = "fetch" => Len(slept) = Len(tries)
        /\ pc = "sleep" =>
            /\ Len(slept) = Len(tries) - 1
            /\ Len(tries) <= Retries
            /\ Transient(tries[Len(tries)])
        /\ wr = "returned" => tries[Len(tries)] = Ok /\ Len(slept) = Len(tries) - 1
        /\ wr = "threw" =>
            /\ tries[Len(tries)] # Ok
            /\ uncaught = tries[Len(tries)]
            /\ ~Transient(uncaught) \/ Len(tries) = Retries + 1
            /\ Len(slept) = Len(tries) - 1
        /\ wr = "running" => pc \in {"fetch", "sleep"}
        /\ (Len(tries) > 0 /\ tries[Len(tries)] # Ok /\ ~Transient(tries[Len(tries)]))
            => wr = "threw"

\* withRetries threw the transient failure of its fourth attempt, after delays
\* of 400, 800 and 1600.
C7_Witness ==
    /\ wr = "threw" /\ Len(tries) = Retries + 1 /\ Transient(uncaught)
    /\ slept = <<400, 800, 1600>>

\* C9: when a translation fails for good, the run ends with a non-zero exit
\* code, no later leaf was sent to the gateway, and the output file and the
\* cache file are as the run found them.
C9_AbortLeavesFiles ==
    (pc = "failed" /\ wr = "threw") =>
        /\ exitCode # 0
        /\ targetFile = startTarget
        /\ cacheFile = startCache
        /\ \A p \in Remaining \ {Head(todo).k} : fetches[p] = 0 /\ calls[p] = 0
        /\ ~Has(out, Head(todo).k)

\* The second of three leaves failed for good after the first was translated.
C9_Witness ==
    /\ pc = "failed" /\ wr = "threw"
    /\ translated = 1 /\ Len(todo) = 2
    /\ cache # LoadedCache

\* C10 as stated: in the cache a completed run wrote, the entry of a path
\* translated in the run is its source value, every other path has the entry
\* it had in the loaded cache, and no loaded entry is missing.
C10_CacheHoldsSourceValue ==
    Completed =>
        /\ \A q \in Keys(LoadedCache) : Has(WrittenCache, q)
        /\ \A q \in Keys(WrittenCache) :
            IF q \in Paths /\ decided[q] = "translate"
            THEN Get(WrittenCache, q) = Str(SourceAt(q))
            ELSE Has(LoadedCache, q) /\ Get(WrittenCache, q) = Get(LoadedCache, q)

\* C10 amended: in the cache a completed run wrote, the entry of a path
\* translated in the run is its source value with the leading and trailing
\* quotes stripped, every other path has the entry it had in the loaded cache,
\* and no loaded entry is missing.
C10_CacheHoldsCleanedSourceValue ==
    Completed =>
        /\ \A q \in Keys(LoadedCache) : Has(WrittenCache, q)
        /\ \A q \in Keys(WrittenCache) :
            IF q \in Paths /\ decided[q] = "translate"
            THEN Get(WrittenCache, q) = Str(Unquoted(SourceAt(q)))
            ELSE Has(LoadedCache, q) /\ Get(WrittenCache, q) = Get(LoadedCache, q)

\* A completed run translated a quoted leaf, reused another and carried the
\* entry of a path that the source no longer has.
C10_Witness ==
    /\ Completed
    /\ \E q \in Paths : decided[q] = "translate" /\ SourceAt(q) # Unquoted(SourceAt(q))
    /\ \E q \in Paths : decided[q] = "reuse"
    /\ \E q \in Keys(LoadedCache) : q \notin Paths /\ Has(WrittenCache, q)

====
